---- MODULE Spec2Model ----
(***************************************************************************)
(* Model of service/api-levels/ApiLevelsUtils.cpp: the framework-API       *)
(* catalogue loader (get_framework_classes), the simple-name index         *)
(* (get_simple_cls_name_to_accepted_types), candidate selection            *)
(* (load_types_to_framework_api), the fixed-point resolver                 *)
(* (check_and_update_release_to_framework) and filter_types.               *)
(*                                                                         *)
(* A DexType is modelled by its descriptor split at '/', e.g.              *)
(* "Landroidx/core/A;" is <<"androidx","core","A">>.                       *)
(***************************************************************************)
EXTENDS Naturals, Integers, Sequences, FiniteSets, TLC

VARIABLES
  pc,                      \* where the ApiLevelsUtils instance is in its code
  m_scope,                 \* m_scope: the program classes, in vector order
  infile,                  \* the records of the descriptor file, in file order
  file_pos,                \* number of records get_framework_classes has read
  framework_api,           \* the local FrameworkAPI that get_framework_classes reuses
  framework_cls_to_api,    \* the catalogue: framework type -> FrameworkAPI
  simple_cls_name_to_type, \* the simple-name index
  simple_names_releases,   \* the local set of load_types_to_framework_api
  scope_pos,               \* number of classes the candidate scan has visited
  m_types_to_framework_api,\* the candidate mapping: release type -> FrameworkAPI
  op,                      \* the public operation in progress: "load" / "filter" / "none"
  filter_arg,              \* the argument of the filter_types call in progress
  entry,                   \* the mapping when the operation in progress reached the resolver's caller
  passes                   \* iterations of the while(true) loop completed in this run

vars == <<pc, m_scope, infile, file_pos, framework_api, framework_cls_to_api,
          simple_cls_name_to_type, simple_names_releases, scope_pos,
          m_types_to_framework_api, op, filter_arg, entry, passes>>

(***************************************************************************)
(* Bounds of the model.                                                    *)
(***************************************************************************)
MaxRecords == 5
MaxFilterSet == 2

(***************************************************************************)
(* The types of the bounded input domain.                                  *)
(***************************************************************************)
java_lang_Object == <<"java", "lang", "Object">>
TVoid == <<"V">>
TInt  == <<"I">>

RA  == <<"androidx", "core", "A">>
RB  == <<"androidx", "core", "B">>
RC  == <<"androidx", "core", "C">>
RD  == <<"androidx", "core", "D">>
RA2 == <<"androidx", "legacy", "A">>
Helper  == <<"com", "app", "Helper">>
Base    == <<"com", "app", "C">>
ExtI    == <<"androidx", "ext", "B">>
ExtBase == <<"android", "app", "Service">>

FA  == <<"android", "A">>
FB  == <<"android", "B">>
FC  == <<"android", "C">>
FD  == <<"android", "D">>
FAx == <<"android", "v2", "A">>
FAy == <<"android", "v3", "A">>

ReleaseTypes == {RA, RB, RC, RD, RA2}

EmptyMap == [x \in {} |-> x]

Range(s) == {s[i] : i \in DOMAIN s}

(***************************************************************************)
(* Members.  A DexProto is a return type and an argument list.             *)
(***************************************************************************)
Proto(r, a) == [rtype |-> r, args |-> a]
MRef(n, p) == [name |-> n, proto |-> p]
FRef(n, t) == [name |-> n, type |-> t]
Meth(n, p, pub) == [name |-> n, proto |-> p, public |-> pub]
Fld(n, t, pub) == [name |-> n, type |-> t, public |-> pub]

DexClass(t, ext, intf, sup, intfs, dm, vm, sf, if) ==
  [type |-> t, external |-> ext, interface |-> intf, super |-> sup,
   interfaces |-> intfs, dmethods |-> dm, vmethods |-> vm,
   sfields |-> sf, ifields |-> if]

(***************************************************************************)
(* Input domain: the program classes.  A scope is built from a few         *)
(* independent choices: the superclass, interfaces and members of A, the   *)
(* superclass of B, the super-interfaces of the interfaces C and D, and    *)
(* whether a second class with simple name A is present (before or after   *)
(* A in the vector).                                                       *)
(***************************************************************************)
NoDef == <<"java", "lang", "Runnable">>

MembersA ==
  [plain  |-> [dm |-> <<Meth("<init>", Proto(TVoid, <<>>), TRUE)>>,
               vm |-> <<Meth("draw", Proto(TVoid, <<>>), TRUE),
                        Meth("hidden", Proto(TVoid, <<>>), FALSE)>>,
               sf |-> <<>>,
               if |-> <<Fld("cache", TInt, FALSE)>>],
   linked |-> [dm |-> <<Meth("create", Proto(RA, <<>>), TRUE)>>,
               vm |-> <<Meth("draw", Proto(TVoid, <<>>), TRUE),
                        Meth("use", Proto(RC, <<RB>>), TRUE)>>,
               sf |-> <<>>,
               if |-> <<Fld("peer", RC, TRUE)>>],
   extra  |-> [dm |-> <<>>,
               vm |-> <<Meth("draw", Proto(TVoid, <<>>), TRUE),
                        Meth("size", Proto(TInt, <<>>), TRUE)>>,
               sf |-> <<>>,
               if |-> <<>>]]

ScopeParams ==
  [superA : {java_lang_Object, RB, ExtBase},
   intfA  : {{}, {RC}, {Helper}},
   membA  : {"plain", "linked", "extra"},
   superB : {java_lang_Object, Base, RD},
   intfCD : {<<{}, {}>>, <<{ExtI, NoDef}, {Helper}>>, <<{RD}, {}>>, <<{RD}, {Helper}>>},
   dupA   : {"none", "first", "last"}]

ClsA(p) ==
  DexClass(RA, FALSE, FALSE, p.superA, p.intfA,
           MembersA[p.membA].dm, MembersA[p.membA].vm,
           MembersA[p.membA].sf, MembersA[p.membA].if)
ClsB(p) ==
  DexClass(RB, FALSE, FALSE, p.superB, {NoDef},
           <<>>, <<Meth("get", Proto(RC, <<>>), TRUE)>>,
           <<Fld("EMPTY", RB, TRUE)>>, <<>>)
ClsC(p) ==
  DexClass(RC, FALSE, TRUE, java_lang_Object, p.intfCD[1],
           <<>>, <<Meth("close", Proto(TVoid, <<>>), TRUE)>>, <<>>, <<>>)
ClsD(p) ==
  DexClass(RD, FALSE, p.superB # RD, java_lang_Object, p.intfCD[2],
           <<>>, <<>>, <<>>, <<>>)
ClsA2 ==
  DexClass(RA2, FALSE, FALSE, java_lang_Object, {},
           <<>>, <<Meth("hidden", Proto(TVoid, <<>>), FALSE)>>, <<>>, <<>>)
ClsHelper ==
  DexClass(Helper, FALSE, TRUE, java_lang_Object, {}, <<>>, <<>>, <<>>, <<>>)
ClsBase ==
  DexClass(Base, FALSE, FALSE, java_lang_Object, {}, <<>>, <<>>, <<>>, <<>>)
ClsExtI ==
  DexClass(ExtI, TRUE, TRUE, java_lang_Object, {}, <<>>, <<>>, <<>>, <<>>)

ScopeOf(p) ==
  (IF p.dupA = "first" THEN <<ClsA2>> ELSE <<>>)
  \o <<ClsA(p), ClsB(p), ClsC(p), ClsD(p), ClsHelper, ClsBase, ClsExtI>>
  \o (IF p.dupA = "last" THEN <<ClsA2>> ELSE <<>>)

\* D is a class when B extends it, and then C does not extend D; the second
\* class of simple name A comes with A and B directly under the root
Scopes ==
  {ScopeOf(p) : p \in {q \in ScopeParams :
                         /\ q.superB = RD => q.intfCD[1] # {RD}
                         /\ q.dupA # "none" =>
                              /\ q.superA = java_lang_Object
                              /\ q.superB = java_lang_Object
                              /\ q.intfA = {}}}

(***************************************************************************)
(* Input domain: the descriptor file, a sequence of records                *)
(* <framework_cls> followed by its M lines and its F lines.                *)
(***************************************************************************)
Rec(c, ms, fs) == [cls |-> c, methods |-> ms, fields |-> fs]

RecA1 == Rec(FA, <<MRef("<init>", Proto(TVoid, <<>>)), MRef("draw", Proto(TVoid, <<>>)),
                   MRef("create", Proto(FA, <<>>)), MRef("use", Proto(FC, <<FB>>))>>,
                 <<FRef("peer", FC)>>)
RecA2 == Rec(FA, <<MRef("<init>", Proto(TVoid, <<>>)), MRef("draw", Proto(TVoid, <<>>)),
                   MRef("create", Proto(FA, <<>>)), MRef("use", Proto(FC, <<RB>>))>>,
                 <<FRef("peer", FC)>>)
RecA3 == Rec(FA, <<MRef("<init>", Proto(TVoid, <<>>)), MRef("draw", Proto(TVoid, <<>>)),
                   MRef("create", Proto(FA, <<>>)), MRef("use", Proto(FC, <<FB>>)),
                   MRef("use", Proto(RC, <<RB>>))>>,
                 <<FRef("peer", FC), FRef("peer", RC)>>)
RecB  == Rec(FB, <<MRef("get", Proto(FC, <<>>))>>, <<FRef("EMPTY", FB)>>)
RecC  == Rec(FC, <<MRef("close", Proto(TVoid, <<>>))>>, <<>>)
RecD  == Rec(FD, <<>>, <<>>)
RecAx == Rec(FAx, <<MRef("draw", Proto(TVoid, <<>>))>>, <<>>)
RecAy == Rec(FAy, <<>>, <<>>)

AllFiles ==
  { <<RecA1, RecB, RecC, RecD>>,
    <<RecA2, RecB, RecC, RecD>>,
    <<RecA3, RecB, RecC, RecD>>,
    <<RecA1, RecC, RecD>>,
    <<RecB, RecA1, RecD>>,
    <<RecA1, RecB, RecC, RecD, RecAx>>,
    <<RecAx, RecA1, RecAy, RecB, RecC>>,
    <<RecA1, RecB, RecA2, RecC>>,
    <<RecAx, RecA1, RecB, RecC, RecD, RecAy>> }

Files == {f \in AllFiles : Len(f) <= MaxRecords}

(***************************************************************************)
(* Collaborators: the class store, the type hierarchy oracle and the       *)
(* signature substitution.                                                 *)
(***************************************************************************)
\* type_class(type) != nullptr
has_class(type) == \E i \in DOMAIN m_scope : m_scope[i].type = type

\* type_class(type)
type_class(type) == m_scope[CHOOSE i \in DOMAIN m_scope : m_scope[i].type = type]

\* cls->get_deobfuscated_name(): no renaming has happened when the pass runs
get_deobfuscated_name(cls) == cls.type

\* TypeSystem::get_all_super_interfaces: the interfaces an interface
\* extends, transitively
RECURSIVE get_all_super_interfaces(_)
get_all_super_interfaces(type) ==
  IF ~has_class(type) THEN {}
  ELSE LET direct == type_class(type).interfaces
       IN  direct \cup UNION {get_all_super_interfaces(i) : i \in direct}

\* TypeSystem::get_implemented_interfaces: the interfaces of a class, those
\* of its superclasses and all their super-interfaces
RECURSIVE get_implemented_interfaces(_)
get_implemented_interfaces(type) ==
  IF ~has_class(type) THEN {}
  ELSE LET cls == type_class(type)
       IN  cls.interfaces
           \cup UNION {get_all_super_interfaces(i) : i \in cls.interfaces}
           \cup get_implemented_interfaces(cls.super)

\* type_reference::get_new_proto: every type of the proto that is a key of
\* the map is replaced by its value, the others pass through
get_new_type(type, release_to_framework) ==
  IF type \in DOMAIN release_to_framework THEN release_to_framework[type] ELSE type

get_new_proto(proto, release_to_framework) ==
  [rtype |-> get_new_type(proto.rtype, release_to_framework),
   args  |-> [i \in DOMAIN proto.args |->
                get_new_type(proto.args[i], release_to_framework)]]

is_public(member) == member.public

is_interface(cls) == cls.interface

(***************************************************************************)
(* get_simple_deobfuscated_name: the text after the last '/' without the   *)
(* trailing ';', i.e. the last component of the descriptor.                *)
(***************************************************************************)
get_simple_deobfuscated_name(type) ==
  LET full_name == IF has_class(type)
                   THEN get_deobfuscated_name(type_class(type))
                   ELSE type
  IN  full_name[Len(full_name)]

\* boost::starts_with(cls_str, "Landroidx")
\* mutant of starts_with_Landroidx: every class name is taken as a release name
starts_with_any(cls_str) == Len(cls_str) > 0

starts_with_Landroidx(cls_str) == Head(cls_str) = "androidx"

(***************************************************************************)
(* A FrameworkAPI value, and what std::move leaves behind.  FrameworkAPI is *)
(* a plain struct of a pointer and two std::unordered_set: its move        *)
(* assignment copies the cls pointer and hands the storage of both sets to *)
(* the (freshly default-constructed) destination, which leaves the source  *)
(* sets empty under libstdc++, libc++ and the MSVC library alike.          *)
(***************************************************************************)
FrameworkAPI(c, ms, fs) == [cls |-> c, mrefs |-> ms, frefs |-> fs]

MovedFrom(api) == FrameworkAPI(api.cls, {}, {})

DefaultFrameworkAPI == FrameworkAPI(<<>>, {}, {})

\* m[key] = value
MapPut(m, key, value) ==
  [k \in DOMAIN m \cup {key} |-> IF k = key THEN value ELSE m[k]]

\* mutant of EraseAll: the erase loop runs on a copy, the map keeps its entries
EraseAll_on_copy(m, keys) == m

\* mutant of EraseAll: the map is cleared when there is anything to erase
EraseAll_clear(m, keys) == IF keys = {} THEN m ELSE [k \in {} |-> m[k]]

\* for (x : keys) m.erase(x)
EraseAll(m, keys) == [k \in DOMAIN m \ keys |-> m[k]]

(***************************************************************************)
(* get_simple_cls_name_to_accepted_types, over one iteration order of the  *)
(* catalogue (an unordered_map): emplace keeps the first claimant of a     *)
(* name, every later claimant puts the name on the filter list, and the    *)
(* names of the filter list are erased after the scan.                     *)
(***************************************************************************)
\* mutant of simple_name_scan: a colliding name is erased at once instead of
\* after the scan, so a third claimant is inserted again
RECURSIVE simple_name_scan_eager(_, _, _, _)
simple_name_scan_eager(order, i, simple_cls_name_to_type_, filter) ==
  IF i > Len(order) THEN [map |-> simple_cls_name_to_type_, filter |-> filter]
  ELSE LET simple_name == order[i][Len(order[i])]
       IN  IF simple_name \notin DOMAIN simple_cls_name_to_type_
           THEN simple_name_scan_eager(order, i + 1,
                  [k \in DOMAIN simple_cls_name_to_type_ \cup {simple_name} |->
                     IF k = simple_name THEN order[i] ELSE simple_cls_name_to_type_[k]],
                  filter)
           ELSE simple_name_scan_eager(order, i + 1,
                  [k \in DOMAIN simple_cls_name_to_type_ \ {simple_name} |->
                     simple_cls_name_to_type_[k]],
                  filter)

RECURSIVE simple_name_scan(_, _, _, _)
simple_name_scan(order, i, simple_cls_name_to_type_, filter) ==
  IF i > Len(order) THEN [map |-> simple_cls_name_to_type_, filter |-> filter]
  ELSE LET simple_name == get_simple_deobfuscated_name(order[i])
           insertion_happened == simple_name \notin DOMAIN simple_cls_name_to_type_
       IN  IF insertion_happened
           THEN simple_name_scan(order, i + 1,
                  MapPut(simple_cls_name_to_type_, simple_name, order[i]), filter)
           ELSE simple_name_scan(order, i + 1,
                  simple_cls_name_to_type_, Append(filter, simple_name))

get_simple_cls_name_to_accepted_types(order) ==
  LET scanned == simple_name_scan(order, 1, EmptyMap, <<>>)
  IN  EraseAll(scanned.map, Range(scanned.filter))

\* the iteration orders of an unordered container holding the set S
RECURSIVE Orders(_)
Orders(S) ==
  IF S = {} THEN {<<>>}
  ELSE UNION {{<<x>> \o o : o \in Orders(S \ {x})} : x \in S}

(***************************************************************************)
(* The member check.                                                       *)
(***************************************************************************)
\* mutant of find_method: the proto is not compared
find_method_by_name(meth_name, meth_proto, mrefs) ==
  \E mref \in mrefs : mref.name = meth_name

find_method(meth_name, meth_proto, mrefs) ==
  \E mref \in mrefs : mref.name = meth_name /\ mref.proto = meth_proto

\* mutant of check_methods: non-public methods are looked up as well
check_methods_all(methods, api, release_to_framework) ==
  \A i \in DOMAIN methods :
    find_method(methods[i].name,
                get_new_proto(methods[i].proto, release_to_framework),
                api.mrefs)

check_methods(methods, api, release_to_framework) ==
  \A i \in DOMAIN methods :
    is_public(methods[i]) =>
      find_method(methods[i].name,
                  get_new_proto(methods[i].proto, release_to_framework),
                  api.mrefs)

find_field(field_name, field_type, frefs) ==
  \E fref \in frefs : fref.name = field_name /\ fref.type = field_type

check_fields(fields, api, release_to_framework) ==
  \A i \in DOMAIN fields :
    is_public(fields[i]) =>
      LET field_type == fields[i].type
          new_field_type ==
            IF field_type \in DOMAIN release_to_framework
            THEN release_to_framework[field_type] ELSE field_type
      IN  find_field(fields[i].name, new_field_type, api.frefs)

check_members(cls, api, release_to_framework) ==
  /\ check_methods(cls.dmethods, api, release_to_framework)
  /\ check_methods(cls.vmethods, api, release_to_framework)
  /\ check_fields(cls.sfields, api, release_to_framework)
  /\ check_fields(cls.ifields, api, release_to_framework)

(***************************************************************************)
(* The hierarchy check.                                                    *)
(***************************************************************************)
\* mutant of check_if_present: only a type without a class definition is
\* skipped, an external class has to be in the index
check_if_present_strict(types, release_to_framework) ==
  \A type \in types :
    \/ ~has_class(type)
    \/ type \in DOMAIN release_to_framework

check_if_present(types, release_to_framework) ==
  \A type \in types :
    \/ ~has_class(type)
    \/ type_class(type).external
    \/ type \in DOMAIN release_to_framework

\* mutant of check_hierarchy: the superclass of a concrete class is not checked
check_hierarchy_no_super(cls, api, release_to_framework) ==
  IF ~is_interface(cls)
  THEN check_if_present(get_implemented_interfaces(cls.type), release_to_framework)
  ELSE check_if_present(get_all_super_interfaces(cls.type), release_to_framework)

\* mutant of check_hierarchy: a superclass that has a class definition is
\* accepted whether or not it is in the index
check_hierarchy_super_declared(cls, api, release_to_framework) ==
  IF ~is_interface(cls)
  THEN /\ check_if_present(get_implemented_interfaces(cls.type), release_to_framework)
       /\ \/ cls.super = java_lang_Object
          \/ cls.super \in DOMAIN release_to_framework
          \/ has_class(cls.super)
  ELSE check_if_present(get_all_super_interfaces(cls.type), release_to_framework)

check_hierarchy(cls, api, release_to_framework) ==
  IF ~is_interface(cls)
  THEN /\ check_if_present(get_implemented_interfaces(cls.type), release_to_framework)
       /\ \/ cls.super = java_lang_Object
          \/ cls.super \in DOMAIN release_to_framework
  ELSE check_if_present(get_all_super_interfaces(cls.type), release_to_framework)

(***************************************************************************)
(* One iteration of the while(true) loop of                                *)
(* check_and_update_release_to_framework: the index of the pass and the    *)
(* set to_remove it accumulates.                                           *)
(***************************************************************************)
release_to_framework_of(types_to_framework_api) ==
  [t \in DOMAIN types_to_framework_api |-> types_to_framework_api[t].cls]

to_remove_of(types_to_framework_api) ==
  LET release_to_framework == release_to_framework_of(types_to_framework_api)
  IN  {t \in DOMAIN types_to_framework_api :
         \/ ~check_members(type_class(t), types_to_framework_api[t], release_to_framework)
         \/ ~check_hierarchy(type_class(t), types_to_framework_api[t], release_to_framework)}

\* mutant of scan: a pair that fails leaves the index at once, so the pairs
\* visited after it are checked against the smaller index
RECURSIVE scan_eager(_, _, _, _, _)
scan_eager(order, i, types_to_framework_api, release_to_framework, to_remove) ==
  IF i > Len(order) THEN to_remove
  ELSE LET t == order[i]
           cls == type_class(t)
           r2f == [k \in DOMAIN release_to_framework \ to_remove |->
                     release_to_framework[k]]
       IN  IF \/ ~check_members(cls, types_to_framework_api[t], r2f)
              \/ ~check_hierarchy(cls, types_to_framework_api[t], r2f)
           THEN scan_eager(order, i + 1, types_to_framework_api, release_to_framework,
                           to_remove \cup {t})
           ELSE scan_eager(order, i + 1, types_to_framework_api, release_to_framework,
                           to_remove)

\* the for loop over the pairs of the mapping: a pair that fails
\* check_members or, if that passes, check_hierarchy is added to to_remove;
\* neither the mapping nor release_to_framework is written
RECURSIVE scan(_, _, _, _, _)
scan(order, i, types_to_framework_api, release_to_framework, to_remove) ==
  IF i > Len(order) THEN to_remove
  ELSE LET t == order[i]
           cls == type_class(t)
       IN  IF ~check_members(cls, types_to_framework_api[t], release_to_framework)
           THEN scan(order, i + 1, types_to_framework_api, release_to_framework,
                     to_remove \cup {t})
           ELSE IF ~check_hierarchy(cls, types_to_framework_api[t], release_to_framework)
           THEN scan(order, i + 1, types_to_framework_api, release_to_framework,
                     to_remove \cup {t})
           ELSE scan(order, i + 1, types_to_framework_api, release_to_framework,
                     to_remove)

\* mutant of to_remove_in: the scan stops at the first pair that fails
to_remove_first(order, types_to_framework_api) ==
  LET failing == {i \in DOMAIN order :
                    scan(<<order[i]>>, 1, types_to_framework_api,
                         release_to_framework_of(types_to_framework_api), {}) # {}}
  IN  IF failing = {} THEN {}
      ELSE {order[CHOOSE i \in failing : \A j \in failing : i <= j]}

\* release_to_framework is built from the mapping, then the pairs are scanned
to_remove_in(order, types_to_framework_api) ==
  scan(order, 1, types_to_framework_api,
       release_to_framework_of(types_to_framework_api), {})

\* mutant of scan_asserts: the member check is asserted instead of tested
scan_asserts_members(types_to_framework_api) ==
  \A t \in DOMAIN types_to_framework_api :
    /\ has_class(t)
    /\ check_members(type_class(t), types_to_framework_api[t],
                     release_to_framework_of(types_to_framework_api))

\* always_assert(cls) for every pair the scan visits
scan_asserts(types_to_framework_api) ==
  \A t \in DOMAIN types_to_framework_api : has_class(t)

(***************************************************************************)
(* The state machine.                                                      *)
(***************************************************************************)
Init ==
  /\ pc = "load"
  /\ m_scope \in Scopes
  /\ infile \in Files
  /\ file_pos = 0
  /\ framework_api = DefaultFrameworkAPI
  /\ framework_cls_to_api = EmptyMap
  /\ simple_cls_name_to_type = EmptyMap
  /\ simple_names_releases = {}
  /\ scope_pos = 0
  /\ m_types_to_framework_api = EmptyMap
  /\ op = "load"
  /\ filter_arg = {}
  /\ entry = EmptyMap
  /\ passes = 0

\* get_framework_classes: one iteration of the record loop
LoadRecord ==
  /\ pc = "load"
  /\ file_pos < Len(infile)
  /\ LET rec == infile[file_pos + 1]
         api == FrameworkAPI(rec.cls,
                             framework_api.mrefs \cup Range(rec.methods),
                             framework_api.frefs \cup Range(rec.fields))
     IN  /\ rec.cls \notin DOMAIN framework_cls_to_api
         /\ framework_cls_to_api' = MapPut(framework_cls_to_api, rec.cls, api)
         /\ framework_api' = MovedFrom(api)
  /\ file_pos' = file_pos + 1
  /\ UNCHANGED <<pc, m_scope, infile, simple_cls_name_to_type, simple_names_releases,
                 scope_pos, m_types_to_framework_api, op, filter_arg, entry, passes>>

\* mutant of LoadDuplicate: the second record of a class replaces the first
LoadDuplicate_overwrite ==
  /\ pc = "load"
  /\ file_pos < Len(infile)
  /\ LET rec == infile[file_pos + 1]
         api == FrameworkAPI(rec.cls,
                             framework_api.mrefs \cup Range(rec.methods),
                             framework_api.frefs \cup Range(rec.fields))
     IN  /\ rec.cls \in DOMAIN framework_cls_to_api
         /\ framework_cls_to_api' = MapPut(framework_cls_to_api, rec.cls, api)
         /\ framework_api' = MovedFrom(api)
  /\ file_pos' = file_pos + 1
  /\ UNCHANGED <<pc, m_scope, infile, simple_cls_name_to_type, simple_names_releases,
                 scope_pos, m_types_to_framework_api, op, filter_arg, entry, passes>>

\* get_framework_classes: always_assert_log(count == 0, "Duplicated class name!")
LoadDuplicate ==
  /\ pc = "load"
  /\ file_pos < Len(infile)
  /\ infile[file_pos + 1].cls \in DOMAIN framework_cls_to_api
  /\ pc' = "fatal"
  /\ framework_api' = [framework_api EXCEPT !.cls = infile[file_pos + 1].cls]
  /\ UNCHANGED <<m_scope, infile, file_pos, framework_cls_to_api,
                 simple_cls_name_to_type, simple_names_releases, scope_pos,
                 m_types_to_framework_api, op, filter_arg, entry, passes>>

\* load_types_to_framework_api: the catalogue is returned at end of file and
\* the simple-name index is built from it
BuildIndex ==
  /\ pc = "load"
  /\ file_pos = Len(infile)
  /\ \E order \in Orders(DOMAIN framework_cls_to_api) :
       simple_cls_name_to_type' = get_simple_cls_name_to_accepted_types(order)
  /\ pc' = "select"
  /\ UNCHANGED <<m_scope, infile, file_pos, framework_api, framework_cls_to_api,
                 simple_names_releases, scope_pos, m_types_to_framework_api,
                 op, filter_arg, entry, passes>>

\* load_types_to_framework_api: one iteration of the loop over m_scope
SelectCandidate ==
  /\ pc = "select"
  /\ scope_pos < Len(m_scope)
  /\ scope_pos' = scope_pos + 1
  /\ LET cls == m_scope[scope_pos + 1]
         cls_str == get_deobfuscated_name(cls)
         simple_name == get_simple_deobfuscated_name(cls.type)
     IN  IF \/ cls.external
            \/ ~starts_with_Landroidx(cls_str)
            \/ simple_name \notin DOMAIN simple_cls_name_to_type
         THEN UNCHANGED <<pc, framework_cls_to_api, m_types_to_framework_api>>
         ELSE IF simple_name \in simple_names_releases
         THEN /\ pc' = "fatal"
              /\ UNCHANGED <<framework_cls_to_api, m_types_to_framework_api>>
         ELSE LET fw == simple_cls_name_to_type[simple_name]
              IN  /\ m_types_to_framework_api' =
                       MapPut(m_types_to_framework_api, cls.type,
                              framework_cls_to_api[fw])
                  /\ framework_cls_to_api' =
                       [framework_cls_to_api EXCEPT ![fw] = MovedFrom(@)]
                  /\ UNCHANGED pc
  /\ UNCHANGED <<m_scope, infile, file_pos, framework_api, simple_cls_name_to_type,
                 simple_names_releases, op, filter_arg, entry, passes>>

\* load_types_to_framework_api: the loop is over, the resolver is called
EndSelect ==
  /\ pc = "select"
  /\ scope_pos = Len(m_scope)
  /\ pc' = "resolve"
  /\ entry' = m_types_to_framework_api
  /\ passes' = 0
  /\ UNCHANGED <<m_scope, infile, file_pos, framework_api, framework_cls_to_api,
                 simple_cls_name_to_type, simple_names_releases, scope_pos,
                 m_types_to_framework_api, op, filter_arg>>

\* mutant of PassRemove: the marked pairs are erased from the mapping the
\* operation started with instead of the current one
PassRemove_stale ==
  /\ pc = "resolve"
  /\ LET to_remove == to_remove_of(m_types_to_framework_api)
     IN  /\ to_remove # {}
         /\ m_types_to_framework_api' = [k \in DOMAIN entry \ to_remove |-> entry[k]]
  /\ passes' = passes + 1
  /\ UNCHANGED <<pc, m_scope, infile, file_pos, framework_api, framework_cls_to_api,
                 simple_cls_name_to_type, simple_names_releases, scope_pos,
                 op, filter_arg, entry>>

\* mutant of PassRemove: the loop is left after the first removal
PassRemove_break ==
  /\ pc = "resolve"
  /\ LET to_remove == to_remove_of(m_types_to_framework_api)
     IN  /\ to_remove # {}
         /\ m_types_to_framework_api' =
              [k \in DOMAIN m_types_to_framework_api \ to_remove |->
                 m_types_to_framework_api[k]]
  /\ passes' = passes + 1
  /\ pc' = "converged"
  /\ UNCHANGED <<m_scope, infile, file_pos, framework_api, framework_cls_to_api,
                 simple_cls_name_to_type, simple_names_releases, scope_pos,
                 op, filter_arg, entry>>

\* check_and_update_release_to_framework: an iteration that removes pairs, or
\* that fails always_assert(cls); the pairs are visited in the order the
\* unordered map yields them
PassRemove ==
  /\ pc = "resolve"
  /\ IF ~scan_asserts(m_types_to_framework_api)
     THEN /\ pc' = "fatal"
          /\ UNCHANGED m_types_to_framework_api
     ELSE \E order \in Orders(DOMAIN m_types_to_framework_api) :
            LET to_remove == to_remove_in(order, m_types_to_framework_api)
            IN  /\ to_remove # {}
                /\ m_types_to_framework_api' = EraseAll(m_types_to_framework_api, to_remove)
                /\ UNCHANGED pc
  /\ passes' = passes + 1
  /\ UNCHANGED <<m_scope, infile, file_pos, framework_api, framework_cls_to_api,
                 simple_cls_name_to_type, simple_names_releases, scope_pos,
                 op, filter_arg, entry>>

\* check_and_update_release_to_framework: the iteration that finds nothing to
\* remove and leaves the loop
PassConverge ==
  /\ pc = "resolve"
  /\ scan_asserts(m_types_to_framework_api)
  /\ \E order \in Orders(DOMAIN m_types_to_framework_api) :
       to_remove_in(order, m_types_to_framework_api) = {}
  /\ pc' = "converged"
  /\ passes' = passes + 1
  /\ UNCHANGED <<m_scope, infile, file_pos, framework_api, framework_cls_to_api,
                 simple_cls_name_to_type, simple_names_releases, scope_pos,
                 m_types_to_framework_api, op, filter_arg, entry>>

\* the resolver and the operation that called it return to the caller
Return ==
  /\ pc = "converged"
  /\ pc' = "idle"
  /\ op' = "none"
  /\ filter_arg' = {}
  /\ entry' = EmptyMap
  /\ passes' = 0
  /\ UNCHANGED <<m_scope, infile, file_pos, framework_api, framework_cls_to_api,
                 simple_cls_name_to_type, simple_names_releases, scope_pos,
                 m_types_to_framework_api>>

FilterSets == {T \in SUBSET ReleaseTypes : Cardinality(T) <= MaxFilterSet}

\* mutant of FilterTypes: the erase loop stops after its first element
FilterTypes_first ==
  /\ pc = "idle"
  /\ \E types \in {T \in SUBSET ReleaseTypes : Cardinality(T) <= MaxFilterSet} :
       /\ filter_arg' = types
       /\ \E keep \in SUBSET types :
            /\ Cardinality(keep) = (IF types = {} THEN 0 ELSE Cardinality(types) - 1)
            /\ m_types_to_framework_api' =
                 [k \in DOMAIN m_types_to_framework_api \ (types \ keep) |->
                    m_types_to_framework_api[k]]
  /\ entry' = m_types_to_framework_api
  /\ op' = "filter"
  /\ pc' = "resolve"
  /\ passes' = 0
  /\ UNCHANGED <<m_scope, infile, file_pos, framework_api, framework_cls_to_api,
                 simple_cls_name_to_type, simple_names_releases, scope_pos>>

\* mutant of FilterTypes: the resolver is not called after the erase loop
FilterTypes_no_resolve ==
  /\ pc = "idle"
  /\ \E types \in {T \in SUBSET ReleaseTypes : Cardinality(T) <= MaxFilterSet} :
       /\ filter_arg' = types
       /\ m_types_to_framework_api' = EraseAll(m_types_to_framework_api, types)
  /\ entry' = m_types_to_framework_api
  /\ op' = "filter"
  /\ pc' = "converged"
  /\ passes' = 0
  /\ UNCHANGED <<m_scope, infile, file_pos, framework_api, framework_cls_to_api,
                 simple_cls_name_to_type, simple_names_releases, scope_pos>>

\* filter_types(types): the erase loop, then the call of the resolver
FilterTypes ==
  /\ pc = "idle"
  /\ \E types \in FilterSets :
       /\ filter_arg' = types
       /\ m_types_to_framework_api' = EraseAll(m_types_to_framework_api, types)
  /\ entry' = m_types_to_framework_api
  /\ op' = "filter"
  /\ pc' = "resolve"
  /\ passes' = 0
  /\ UNCHANGED <<m_scope, infile, file_pos, framework_api, framework_cls_to_api,
                 simple_cls_name_to_type, simple_names_releases, scope_pos>>

Next ==
  \/ LoadRecord
  \/ LoadDuplicate
  \/ BuildIndex
  \/ SelectCandidate
  \/ EndSelect
  \/ PassRemove
  \/ PassConverge
  \/ Return
  \/ FilterTypes

Spec == Init /\ [][Next]_vars

(***************************************************************************)
(* Vocabulary of the properties, stated on the classes and the mapping     *)
(* without the operators of the resolver.                                  *)
(***************************************************************************)
Keys == DOMAIN m_types_to_framework_api

ClassOf(t) == CHOOSE c \in Range(m_scope) : c.type = t

\* a type with no class in the program, or with an external class
IsExternalType(t) == \A c \in Range(m_scope) : c.type = t => c.external

DeclaredMethods(t) == Range(ClassOf(t).dmethods) \cup Range(ClassOf(t).vmethods)
DeclaredFields(t) == Range(ClassOf(t).sfields) \cup Range(ClassOf(t).ifields)

\* the direct ancestors of an internal class: its superclass and interfaces
Parents(t) ==
  IF IsExternalType(t) THEN {} ELSE {ClassOf(t).super} \cup ClassOf(t).interfaces

\* the pair of key r, read in mapping M, has its members in its descriptor
MembersIn(r, M) ==
  LET sub(t) == IF t \in DOMAIN M THEN M[t].cls ELSE t
  IN  /\ \A m \in DeclaredMethods(r) :
           m.public =>
             \E f \in M[r].mrefs :
               /\ f.name = m.name
               /\ f.proto.rtype = sub(m.proto.rtype)
               /\ Len(f.proto.args) = Len(m.proto.args)
               /\ \A i \in 1 .. Len(m.proto.args) :
                    f.proto.args[i] = sub(m.proto.args[i])
      /\ \A x \in DeclaredFields(r) :
           x.public => \E f \in M[r].frefs : f.name = x.name /\ f.type = sub(x.type)

\* every interface and superclass of r is the root, external, or a key of M
ParentsIn(r, M) ==
  \A a \in Parents(r) :
    a = java_lang_Object \/ IsExternalType(a) \/ a \in DOMAIN M

\* C1: whenever the resolver returns, every surviving pair has each public
\* method and field of the release class in its descriptor after substitution
\* through the final mapping, and each interface and superclass of the release
\* class is the root object, external, or itself a surviving key.
C1_SoundAtConvergence ==
  pc = "converged" =>
    \A r \in Keys :
      /\ MembersIn(r, m_types_to_framework_api)
      /\ ParentsIn(r, m_types_to_framework_api)

\* a run of the resolver that removed pairs and kept A, whose checked
\* signature mentions a key and whose superclass is a key
C1_Witness ==
  /\ pc = "converged"
  /\ passes >= 2
  /\ RA \in Keys
  /\ ClassOf(RA).super = RB
  /\ \E m \in DeclaredMethods(RA) : m.public /\ Range(m.proto.args) \cap Keys # {}

(***************************************************************************)
(* The mapping the while(true) loop of the run in progress started from:   *)
(* the built mapping for the load, the mapping less the filtered types for *)
(* a filter_types call.                                                    *)
(***************************************************************************)
LoopEntry == [k \in DOMAIN entry \ filter_arg |-> entry[k]]

Restrict(M, S) == [k \in S |-> M[k]]

\* every pair of M passes the member check and the hierarchy check read in M
SelfConsistent(M) ==
  \A r \in DOMAIN M :
    /\ check_members(ClassOf(r), M[r], [k \in DOMAIN M |-> M[k].cls])
    /\ check_hierarchy(ClassOf(r), M[r], [k \in DOMAIN M |-> M[k].cls])

\* the types a descriptor's member signatures mention
SignatureTypes(api) ==
  UNION {{f.proto.rtype} \cup Range(f.proto.args) : f \in api.mrefs}
  \cup {f.type : f \in api.frefs}

\* no descriptor of M has a member signature that mentions a key of M
NoKeyInSignatures(M) ==
  \A r \in DOMAIN M : SignatureTypes(M[r]) \cap DOMAIN M = {}

\* C2 as stated: the mapping the loop returns contains every subset of the
\* mapping it started from whose pairs all pass both checks read in that
\* subset.
C2_Maximal ==
  pc = "converged" =>
    \A S \in SUBSET DOMAIN LoopEntry :
      SelfConsistent(Restrict(LoopEntry, S)) => S \subseteq Keys

\* C2 as amended: when no framework member signature of the starting mapping
\* mentions a release class that is a key of it, the mapping the loop returns
\* contains every subset of the starting mapping whose pairs all pass both
\* checks read in that subset.
C2_MaximalWhenSignaturesAreFramework ==
  (pc = "converged" /\ NoKeyInSignatures(LoopEntry)) =>
    \A S \in SUBSET DOMAIN LoopEntry :
      SelfConsistent(Restrict(LoopEntry, S)) => S \subseteq Keys

\* a run that removed pairs in two passes, kept others, and started from a
\* mapping whose descriptors mention no key
C2_Witness ==
  /\ pc = "converged"
  /\ NoKeyInSignatures(LoopEntry)
  /\ passes >= 3
  /\ Keys # {}

\* C3: after the initial build, every step (a resolver pass, a filter_types
\* call) leaves a key set that is a subset of the one before it.
C3_MonotonicShrink ==
  [][pc \notin {"load", "select"} => DOMAIN m_types_to_framework_api' \subseteq Keys]_vars

\* a filter_types call that erased a key and whose resolver run removed more
C3_Witness ==
  /\ pc = "converged"
  /\ op = "filter"
  /\ filter_arg \cap DOMAIN entry # {}
  /\ passes >= 2
  /\ Keys # {}

\* C4: the loop terminates: every pass that does not leave the loop removes at
\* least one pair, so the passes of a run number at most the size of the
\* mapping at loop entry plus one.
C4_PassesBounded ==
  /\ pc = "resolve" =>
       passes <= Cardinality(DOMAIN LoopEntry) - Cardinality(Keys)
  /\ pc = "converged" =>
       /\ passes <= Cardinality(DOMAIN LoopEntry) - Cardinality(Keys) + 1
       /\ passes <= Cardinality(DOMAIN LoopEntry) + 1

\* a run of three passes: two cascading removals, then the pass that stops
C4_Witness ==
  /\ pc = "converged"
  /\ passes = 3
  /\ Cardinality(DOMAIN LoopEntry) - Cardinality(Keys) >= 2

\* C5: filter_types with an empty set, or with identities none of which is a
\* key, runs the resolver on a converged mapping: nothing is removed and the
\* loop stops after a single pass.
C5_Idempotent ==
  (pc = "converged" /\ op = "filter" /\ filter_arg \cap DOMAIN entry = {}) =>
    /\ m_types_to_framework_api = entry
    /\ passes = 1

\* a filter_types call on a non-empty mapping with identities that are no keys
C5_Witness ==
  /\ pc = "converged"
  /\ op = "filter"
  /\ filter_arg # {}
  /\ filter_arg \cap DOMAIN entry = {}
  /\ Cardinality(DOMAIN entry) >= 2

\* b is reached from a through superclass and interface edges whose
\* intermediate classes are keys of M
RECURSIVE AncestorVia(_, _, _)
AncestorVia(a, b, M) ==
  \/ b \in Parents(a)
  \/ \E c \in Parents(a) \cap DOMAIN M : AncestorVia(c, b, M)

\* C6: when filter_types excludes a key B, every key A that has B as
\* superclass or interface, directly or through a chain of mapped ancestors,
\* is removed by the time the call returns.
C6_CascadingRemoval ==
  (pc = "converged" /\ op = "filter") =>
    \A b \in filter_arg \cap DOMAIN entry :
      \A a \in DOMAIN entry :
        AncestorVia(a, b, entry) => a \notin Keys

\* a call that excluded B only, where A depended on B through a mapped
\* ancestor between them
C6_Witness ==
  /\ pc = "converged"
  /\ op = "filter"
  /\ \E b \in filter_arg \cap DOMAIN entry :
       \E a \in DOMAIN entry \ filter_arg :
         /\ b \notin Parents(a)
         /\ \E c \in (Parents(a) \cap DOMAIN entry) \ filter_arg : b \in Parents(c)

\* C7: when filter_types(T) returns, no identity of T is a key and a further
\* resolver pass would mark nothing for removal.
C7_FilterPostcondition ==
  (pc = "converged" /\ op = "filter") =>
    /\ filter_arg \cap Keys = {}
    /\ to_remove_of(m_types_to_framework_api) = {}

\* a call that excluded two keys and whose resolver run removed dependents
C7_Witness ==
  /\ pc = "converged"
  /\ op = "filter"
  /\ Cardinality(filter_arg \cap DOMAIN entry) = 2
  /\ passes >= 2
  /\ Keys # {}

\* the simple name of a descriptor: its last component
SimpleNameOf(t) == t[Len(t)]

\* the framework classes of the catalogue that claim a simple name
Claimants(name) == {c \in DOMAIN framework_cls_to_api : SimpleNameOf(c) = name}

CatalogueNames == {SimpleNameOf(c) : c \in DOMAIN framework_cls_to_api}

\* C8: a simple name that two or more framework classes of the catalogue
\* share (two, three or more) has no entry in the simple-name index, and no
\* release class is mapped to any of those framework classes.
C8_AmbiguityExclusion ==
  \A name \in CatalogueNames :
    Cardinality(Claimants(name)) >= 2 =>
      /\ name \notin DOMAIN simple_cls_name_to_type
      /\ \A r \in Keys : m_types_to_framework_api[r].cls \notin Claimants(name)

\* the load has finished with a simple name of three claimants that a release
\* class of the program bears, and with other pairs mapped
C8_Witness ==
  /\ pc = "converged"
  /\ op = "load"
  /\ Keys # {}
  /\ \E c \in Range(m_scope) :
       /\ ~c.external
       /\ Head(c.type) = "androidx"
       /\ Cardinality(Claimants(SimpleNameOf(c.type))) >= 3

\* the internal classes of the release convention whose simple name has an
\* entry in the simple-name index
ReleaseHits ==
  {c.type : c \in {d \in Range(m_scope) :
                     /\ ~d.external
                     /\ Head(d.type) = "androidx"
                     /\ SimpleNameOf(d.type) \in DOMAIN simple_cls_name_to_type}}

\* C9: when two or more internal release classes have the same simple name and
\* the name has an entry in the simple-name index, candidate selection aborts:
\* it never finishes with a mapping, and no mapping holds two release classes
\* of the same simple name.
C9_DuplicateReleaseNameIsFatal ==
  /\ pc \in {"resolve", "converged", "idle"} =>
       \A r1, r2 \in ReleaseHits : SimpleNameOf(r1) = SimpleNameOf(r2) => r1 = r2
  /\ \A r1, r2 \in Keys : SimpleNameOf(r1) = SimpleNameOf(r2) => r1 = r2

\* the record of the descriptor file that the loader parsed for a class
ParsedRecord(c) == infile[CHOOSE i \in DOMAIN infile : infile[i].cls = c]

\* C10: the descriptor of every candidate pair has exactly the method set and
\* the field set that the loader parsed for its framework class.
C10_DescriptorImmutable ==
  \A r \in Keys :
    LET api == m_types_to_framework_api[r]
    IN  /\ api.mrefs = Range(ParsedRecord(api.cls).methods)
        /\ api.frefs = Range(ParsedRecord(api.cls).fields)

\* C11: a member or hierarchy mismatch never aborts the resolver: every step
\* of a resolver run stays in the loop or leaves it normally, and the pairs it
\* keeps are kept as they were, so a mismatch shows only as an absent pair.
C11_SoftExclusion ==
  [][pc = "resolve" =>
       /\ pc' \in {"resolve", "converged"}
       /\ \A r \in DOMAIN m_types_to_framework_api' :
            /\ r \in Keys
            /\ m_types_to_framework_api'[r] = m_types_to_framework_api[r]]_vars

\* a run that ended normally after dropping one pair for a member mismatch
\* and another for a hierarchy mismatch, with other pairs kept
C11_Witness ==
  /\ pc = "converged"
  /\ Keys # {}
  /\ \E r \in DOMAIN LoopEntry \ Keys : ~MembersIn(r, LoopEntry)
  /\ \E r \in DOMAIN LoopEntry \ Keys : MembersIn(r, LoopEntry) /\ ~ParentsIn(r, LoopEntry)

\* the members of a sequence that are public
PublicMembers(members) == SelectSeq(members, is_public)

\* the non-public members of a sequence, renamed and retyped
NonPublicChanged(members) ==
  [i \in DOMAIN members |->
     IF is_public(members[i]) THEN members[i]
     ELSE IF "proto" \in DOMAIN members[i]
          THEN Meth("renamed", Proto(RB, <<RC>>), FALSE)
          ELSE Fld("renamed", RB, FALSE)]

\* classes that differ from cls in non-public methods and fields only: all
\* of them removed, one method added, one field added, each of them changed
NonPublicVariants(cls) ==
  {[cls EXCEPT !.dmethods = PublicMembers(@), !.vmethods = PublicMembers(@),
               !.sfields = PublicMembers(@), !.ifields = PublicMembers(@)],
   [cls EXCEPT !.vmethods = Append(@, Meth("ghost", Proto(TVoid, <<RB>>), FALSE))],
   [cls EXCEPT !.dmethods = Append(@, Meth("<clinit>", Proto(TVoid, <<>>), FALSE))],
   [cls EXCEPT !.sfields = Append(@, Fld("ghost", RC, FALSE))],
   [cls EXCEPT !.dmethods = NonPublicChanged(@), !.vmethods = NonPublicChanged(@),
               !.sfields = NonPublicChanged(@), !.ifields = NonPublicChanged(@)]}

\* C12: in every resolver iteration the member check of a pair gives the same
\* answer for the release class and for any class that differs from it only
\* in non-public methods or fields (removed, added or changed).
C12_NonPublicIgnored ==
  pc = "resolve" =>
    \A r \in Keys : \A variant \in NonPublicVariants(ClassOf(r)) :
      check_members(variant, m_types_to_framework_api[r],
                    release_to_framework_of(m_types_to_framework_api))
      = check_members(ClassOf(r), m_types_to_framework_api[r],
                      release_to_framework_of(m_types_to_framework_api))

\* a pair that survived although the release class declares, next to a public
\* method its descriptor has, a non-public method and a non-public field its
\* descriptor lacks
C12_Witness ==
  /\ pc = "converged"
  /\ \E r \in Keys :
       /\ \E meth \in DeclaredMethods(r) :
            /\ is_public(meth)
            /\ find_method(meth.name, meth.proto, m_types_to_framework_api[r].mrefs)
       /\ \E meth \in DeclaredMethods(r) :
            /\ ~is_public(meth)
            /\ ~find_method_by_name(meth.name, meth.proto, m_types_to_framework_api[r].mrefs)
       /\ \E fld \in DeclaredFields(r) :
            /\ ~is_public(fld)
            /\ \A fref \in m_types_to_framework_api[r].frefs : fref.name # fld.name

\* C13: every key of the candidate mapping is a class of the scope that is not
\* external, whose name starts with the release prefix and whose simple name
\* has an entry in the simple-name index, and its descriptor is that of the
\* framework class the entry names; so no external class and no class outside
\* the prefix is a key.
C13_CandidateKeys ==
  \A r \in Keys :
    /\ \E c \in Range(m_scope) : c.type = r /\ ~c.external
    /\ ~IsExternalType(r)
    /\ Head(r) = "androidx"
    /\ SimpleNameOf(r) \in DOMAIN simple_cls_name_to_type
    /\ m_types_to_framework_api[r].cls = simple_cls_name_to_type[SimpleNameOf(r)]
    /\ SimpleNameOf(m_types_to_framework_api[r].cls) = SimpleNameOf(r)

\* selection is over with pairs built, while the scope also holds an external
\* class under the prefix and an internal class outside the prefix whose
\* simple names have index entries
C13_Witness ==
  /\ pc = "resolve"
  /\ passes = 0
  /\ op = "load"
  /\ Keys # {}
  /\ \E c \in Range(m_scope) :
       /\ c.external
       /\ Head(c.type) = "androidx"
       /\ SimpleNameOf(c.type) \in DOMAIN simple_cls_name_to_type
       /\ c.type \notin Keys
  /\ \E c \in Range(m_scope) :
       /\ ~c.external
       /\ Head(c.type) # "androidx"
       /\ SimpleNameOf(c.type) \in DOMAIN simple_cls_name_to_type
       /\ c.type \notin Keys

\* the positions of the descriptor file whose class name an earlier record has
RepeatedRecords ==
  {i \in DOMAIN infile : \E j \in 1..(i - 1) : infile[j].cls = infile[i].cls}

\* C14: a descriptor file with two records of one framework class never gets
\* past loading: the load stops at the first record that repeats a class
\* name, with no index and no mapping built; a catalogue that is returned has
\* one key per record of the file.
C14_DuplicateRecordIsFatal ==
  /\ RepeatedRecords # {} =>
       /\ pc \in {"load", "fatal"}
       /\ file_pos < Len(infile)
       /\ \A i \in RepeatedRecords : file_pos < i
       /\ simple_cls_name_to_type = EmptyMap
       /\ m_types_to_framework_api = EmptyMap
  /\ (pc = "fatal" /\ RepeatedRecords # {}) => file_pos + 1 \in RepeatedRecords
  /\ pc \notin {"load", "fatal"} =>
       /\ RepeatedRecords = {}
       /\ Cardinality(DOMAIN framework_cls_to_api) = Len(infile)
       /\ DOMAIN framework_cls_to_api = {infile[i].cls : i \in DOMAIN infile}

\* the load aborted at the second record of a class, after records of other
\* classes had been stored
C14_Witness ==
  /\ pc = "fatal"
  /\ file_pos >= 2
  /\ file_pos + 1 \in RepeatedRecords
  /\ \E j \in 1..file_pos : infile[j].cls = infile[file_pos + 1].cls
  /\ Cardinality(DOMAIN framework_cls_to_api) = file_pos

\* C15: a resolver iteration removes exactly the pairs that fail the member
\* check or the hierarchy check read against the index built from the mapping
\* the iteration started with, and keeps the others as they were; a pair
\* whose only fault is a dependency marked in the same iteration is kept by
\* that iteration.
C15_SnapshotPerPass ==
  [][pc = "resolve" =>
       /\ \A r \in Keys :
            r \notin DOMAIN m_types_to_framework_api' <=>
              \/ ~check_members(ClassOf(r), m_types_to_framework_api[r],
                                release_to_framework_of(m_types_to_framework_api))
              \/ ~check_hierarchy(ClassOf(r), m_types_to_framework_api[r],
                                  release_to_framework_of(m_types_to_framework_api))
       /\ m_types_to_framework_api' =
            Restrict(m_types_to_framework_api, DOMAIN m_types_to_framework_api')]_vars

\* after the first iteration: a pair that passed both checks against the
\* index of that iteration is still in the mapping although a parent of it was
\* removed by that iteration, and fails now
C15_Witness ==
  /\ pc = "resolve"
  /\ passes = 1
  /\ \E r \in Keys :
       /\ r \notin to_remove_of(LoopEntry)
       /\ r \in to_remove_of(m_types_to_framework_api)
       /\ \E d \in Parents(r) : d \in to_remove_of(LoopEntry) /\ d \notin Keys

\* the classes on the superclass chain of t, the root object type left out; a
\* type without a class definition ends the chain
RECURSIVE SuperChain(_)
SuperChain(t) ==
  IF t = java_lang_Object \/ (\A c \in Range(m_scope) : c.type # t) THEN {}
  ELSE LET super == ClassOf(t).super
       IN  IF super = java_lang_Object THEN {} ELSE {super} \cup SuperChain(super)

\* C16: in the mapping the resolver returns, every class on the superclass
\* chain of a surviving class that is not an interface, the root object type
\* left out, is a key too.
C16_SuperclassChainCovered ==
  pc \in {"converged", "idle"} =>
    \A r \in Keys : ~ClassOf(r).interface => SuperChain(r) \subseteq Keys

\* a surviving class with two classes on its chain, the farther one never
\* inspected by the hierarchy check of the class itself
C16_Witness ==
  /\ pc = "converged"
  /\ \E r \in Keys :
       /\ ~ClassOf(r).interface
       /\ Cardinality(SuperChain(r)) >= 2
       /\ \E a \in SuperChain(r) : a # ClassOf(r).super /\ a \in Keys

\* the interfaces a type declares; none for a type without a class definition
DeclaredInterfaces(t) ==
  IF \A c \in Range(m_scope) : c.type # t THEN {} ELSE ClassOf(t).interfaces

\* the closure of a set of interfaces under "extends"
RECURSIVE InterfaceClosure(_)
InterfaceClosure(S) ==
  LET next == S \cup UNION {DeclaredInterfaces(t) : t \in S}
  IN  IF next = S THEN S ELSE InterfaceClosure(next)

\* the rule of the hierarchy check for key r against the index with keys K
HierarchyRule(r, K) ==
  IF ~ClassOf(r).interface
  THEN /\ \A i \in InterfaceClosure(UNION {DeclaredInterfaces(c) :
                                             c \in {r} \cup SuperChain(r)}) :
            IsExternalType(i) \/ i \in K
       /\ ClassOf(r).super = java_lang_Object \/ ClassOf(r).super \in K
  ELSE \A i \in InterfaceClosure(DeclaredInterfaces(r)) :
         IsExternalType(i) \/ i \in K

\* C17: in every resolver iteration the hierarchy check of a pair passes
\* exactly when the rule holds: for a class, every implemented interface is
\* external (or undefined) or a key and the immediate superclass is the root
\* object type or a key; for an interface, every transitively extended
\* interface is external or a key, whatever its superclass is.  A class whose
\* immediate superclass is external and not the root fails, and is in no
\* mapping the resolver returns.
C17_HierarchyRule ==
  /\ pc = "resolve" =>
       \A r \in Keys :
         LET cls == ClassOf(r)
             passed(c) == check_hierarchy(c, m_types_to_framework_api[r],
                            release_to_framework_of(m_types_to_framework_api))
         IN  /\ passed(cls) <=> HierarchyRule(r, Keys)
             /\ cls.interface =>
                  \A super \in {ExtBase, Base, RA, Helper} :
                    passed([cls EXCEPT !.super = super]) = passed(cls)
             /\ (~cls.interface /\ cls.super # java_lang_Object
                 /\ IsExternalType(cls.super)) => ~passed(cls)
  /\ pc \in {"converged", "idle"} =>
       \A r \in Keys :
         /\ HierarchyRule(r, Keys)
         /\ ~ClassOf(r).interface =>
              ClassOf(r).super = java_lang_Object \/ ~IsExternalType(ClassOf(r).super)

\* the resolver returned a mapping that lacks a class whose members and
\* interfaces were in order and whose superclass is external and not the
\* root, and that holds an interface extending an external interface
C17_Witness ==
  /\ pc = "converged"
  /\ \E r \in DOMAIN LoopEntry \ Keys :
       /\ ~ClassOf(r).interface
       /\ MembersIn(r, LoopEntry)
       /\ ClassOf(r).super # java_lang_Object
       /\ IsExternalType(ClassOf(r).super)
       /\ \A i \in ClassOf(r).interfaces : IsExternalType(i) \/ i \in DOMAIN LoopEntry
  /\ \E r \in Keys :
       /\ ClassOf(r).interface
       /\ \E i \in DeclaredInterfaces(r) : IsExternalType(i) /\ i \notin Keys

\* the mapping the resolver loop ends with when it starts with M, each
\* iteration erasing the pairs that fail against the index of M
RECURSIVE Converge(_)
Converge(M) ==
  IF to_remove_of(M) = {} THEN M ELSE Converge(EraseAll(M, to_remove_of(M)))

\* C18: whichever order the pairs are visited in, a resolver iteration marks
\* the same pairs, so the mapping after the iteration and the decision to stop
\* do not depend on the order; and the mapping the loop returns is the one
\* determined by the mapping the loop started with.
C18_ScanOrderIndependent ==
  /\ pc = "resolve" =>
       \A order \in Orders(Keys) :
         to_remove_in(order, m_types_to_framework_api)
           = to_remove_of(m_types_to_framework_api)
  /\ pc = "converged" => m_types_to_framework_api = Converge(LoopEntry)

\* an iteration that visits three or more pairs, marks two or more of them
\* and keeps a pair that depends on a marked one
C18_Witness ==
  /\ pc = "resolve"
  /\ Cardinality(Keys) >= 3
  /\ Cardinality(to_remove_of(m_types_to_framework_api)) >= 2
  /\ \E r \in Keys \ to_remove_of(m_types_to_framework_api) :
       Parents(r) \cap to_remove_of(m_types_to_framework_api) # {}

\* the mapping filter_types(types) leaves when called on the mapping M
Filtered(M, types) == Converge(EraseAll(M, types))

\* C19 as stated: the mapping a filter_types call on a converged mapping
\* returns is the one that two calls return whose sets together make up its
\* set, in either order.
C19_FilterBatching ==
  (pc = "converged" /\ op = "filter") =>
    \A A, B \in SUBSET filter_arg :
      A \cup B = filter_arg =>
        m_types_to_framework_api = Filtered(Filtered(entry, A), B)

\* C19 as amended: the same, when no framework member signature of the
\* converged mapping the call started from mentions a release class that is a
\* key of it.
C19_FilterBatchingWhenSignaturesAreFramework ==
  (pc = "converged" /\ op = "filter" /\ NoKeyInSignatures(entry)) =>
    \A A, B \in SUBSET filter_arg :
      A \cup B = filter_arg =>
        m_types_to_framework_api = Filtered(Filtered(entry, A), B)

\* a call with two keys of a converged mapping whose descriptors mention no
\* key; each key alone makes the resolver remove further pairs, the two
\* single calls give different mappings, and pairs are left at the end
C19_Witness ==
  /\ pc = "converged"
  /\ op = "filter"
  /\ NoKeyInSignatures(entry)
  /\ Cardinality(filter_arg) = 2
  /\ filter_arg \subseteq DOMAIN entry
  /\ \A t \in filter_arg : DOMAIN Filtered(entry, {t}) # DOMAIN entry \ {t}
  /\ \E t, u \in filter_arg : Filtered(entry, {t}) # Filtered(entry, {u})
  /\ Keys # {}

====
